---- MODULE Spec2Model ----
(***************************************************************************)
(* Model of the Limen SDK client: the token store, the challenge/response  *)
(* authenticator (auth.ts), the authorized request gateway (client.ts)     *)
(* and the keypair payment adapter (payment client factory).               *)
(*                                                                         *)
(* Every asynchronous method is cut at the awaits where the event loop can *)
(* run another caller: a call slot c carries the method's position pc[c]   *)
(* and its locals.  Everything a continuation does synchronously between   *)
(* two awaits is one action.                                               *)
(***************************************************************************)
EXTENDS Integers, Sequences, FiniteSets, TLC

\* Number of distinct session tokens the server issues.
MaxTokens == 2

\* Call slots of one client: two calls may overlap.
Calls == {1, 2}

VARIABLES
    tokenStore,     \* content of the configured TokenStore
    paymentClient,  \* LimenClient.paymentClient
    lastWriter,     \* the call that wrote tokenStore last (0: nobody yet)
    op,             \* op[c]: the method call slot c is running
    pc,             \* pc[c]: its position
    arg,            \* arg[c]: the argument it was called with
    tok,            \* tok[c]: the token requireToken read
    log,            \* log[c]: requests handed to fetchFn / paymentClient.fetch
    res,            \* res[c]: the response the call is handling
    writes,         \* writes[c]: how often the call wrote tokenStore
    result,         \* result[c]: what the call returned or threw
    got,            \* got[c]: what the call's transport promises settled with
    pay             \* one call of the keypair payment client's fetch

vars == <<tokenStore, paymentClient, lastWriter, op, pc, arg, tok, log, res, writes, result, got, pay>>
clientVars == <<tokenStore, paymentClient, lastWriter, op, pc, arg, tok, log, res, writes, result, got>>

(***************************************************************************)
(* Values                                                                  *)
(***************************************************************************)
NoToken == "<null>"            \* TokenStore.getToken() -> null
NotRead == "<unread>"          \* the call has not read the store

NoClient == "<undefined>"
PayClients == {"p1", "p2"}      \* PaymentClient objects a caller may configure

Statuses == {200, 400, 401, 402, 500}
AuthStatuses == {200, 400}

Has(r, f) == f \in DOMAIN r
EmptyObj == <<>>               \* the JSON object {}

\* requireToken's `!token` on a string | null
FalsyOnlyEmpty(t) == t = ""
Falsy(t) == t = NoToken \/ t = ""

Err(kind, status, text) == [kind |-> kind, status |-> status, text |-> text]
NoErr == Err("", 0, "")
Threw(e) == [kind |-> "err", val |-> EmptyObj, err |-> e]
Returned(v) == [kind |-> "ok", val |-> v, err |-> NoErr]
NoResult == [kind |-> "none", val |-> EmptyObj, err |-> NoErr]
Void == [void |-> TRUE]

NoRes == [status |-> 0, json |-> FALSE, text |-> "", data |-> EmptyObj]
Response(status, json, text, data) ==
    [status |-> status, json |-> json, text |-> text, data |-> data]

NoArg == EmptyObj

Request(via, method, path, auth, ctype, body) ==
    [via |-> via, method |-> method, path |-> path, auth |-> auth,
     ctype |-> ctype, body |-> body]
NoBody == EmptyObj

(***************************************************************************)
(* parseJson / fetchJson: res.json(), and on failure res.text() in the     *)
(* message.                                                                *)
(***************************************************************************)
parseJson(r) ==
    IF r.json THEN Returned(r.data)
    ELSE Threw(Err("ParseFailed", 0, r.text))

(***************************************************************************)
(* String(n) for a non-negative integer                                    *)
(***************************************************************************)
Digit(d) == CASE d = 0 -> "0" [] d = 1 -> "1" [] d = 2 -> "2" [] d = 3 -> "3"
              [] d = 4 -> "4" [] d = 5 -> "5" [] d = 6 -> "6" [] d = 7 -> "7"
              [] d = 8 -> "8" [] d = 9 -> "9"

RECURSIVE NumToString(_)
NumToString(n) == IF n < 10 THEN Digit(n)
                  ELSE NumToString(n \div 10) \o Digit(n % 10)

\* session tokens the server issues
Tokens == { "t" \o NumToString(i) : i \in 1..MaxTokens }

(***************************************************************************)
(* getHistory: the query string                                            *)
(***************************************************************************)
\* options.limit is number | "all": [num |-> n] or [str |-> s]
LimitTruthy(l) == IF Has(l, "num") THEN l.num # 0 ELSE l.str # ""
LimitString(l) == IF Has(l, "num") THEN NumToString(l.num) ELSE l.str

\* the query with limit taking precedence over all
HistoryParamsLimitFirst(o) ==
    LET first == IF Has(o, "limit") /\ LimitTruthy(o.limit)
                 THEN << <<"limit", IF o.limit = [str |-> "all"] THEN "all"
                                     ELSE LimitString(o.limit)>> >>
                 ELSE IF Has(o, "all") /\ o.all
                 THEN << <<"all", "true">> >>
                 ELSE <<>>
        second == IF Has(o, "page") /\ o.page # 0
                  THEN << <<"page", NumToString(o.page)>> >>
                  ELSE <<>>
    IN first \o second

HistoryParams(o) ==
    LET first == IF Has(o, "all") /\ o.all
                 THEN << <<"all", "true">> >>
                 ELSE IF Has(o, "limit") /\ LimitTruthy(o.limit)
                 THEN << <<"limit", IF o.limit = [str |-> "all"] THEN "all"
                                     ELSE LimitString(o.limit)>> >>
                 ELSE <<>>
        second == IF Has(o, "page") /\ o.page # 0
                  THEN << <<"page", NumToString(o.page)>> >>
                  ELSE <<>>
    IN first \o second

RECURSIVE ParamsToString(_)
ParamsToString(ps) ==
    IF ps = <<>> THEN ""
    ELSE LET h == ps[1][1] \o "=" \o ps[1][2]
         IN IF Len(ps) = 1 THEN h ELSE h \o "&" \o ParamsToString(Tail(ps))

HistoryPath(o) ==
    LET query == ParamsToString(HistoryParams(o))
    IN "/api/history" \o (IF query # "" THEN "?" \o query ELSE "")

\* the result with the decoded fields passed through as they are
HistoryResultRaw(data) ==
    (IF Has(data, "history") THEN [history |-> data.history]
     ELSE [history |-> [undefined |-> TRUE]])
    @@ [pagination |-> IF Has(data, "pagination") THEN data.pagination
                       ELSE [undefined |-> TRUE]]

\* the result getHistory builds from the decoded body
HistoryResult(data) ==
    [history |-> IF Has(data, "history") /\ Has(data.history, "arr")
                 THEN data.history.arr ELSE <<>>,
     pagination |-> IF Has(data, "pagination") /\ ~Has(data.pagination, "null")
                    THEN data.pagination ELSE [null |-> TRUE]]

(***************************************************************************)
(* Inputs                                                                  *)
(***************************************************************************)
HistoryOptions ==
    { EmptyObj,
      [all |-> TRUE, limit |-> [num |-> 20], page |-> 2] }

HistoryBodies ==
    { [json |-> FALSE, text |-> "<html>", data |-> EmptyObj],
      [json |-> TRUE, text |-> "{}", data |-> EmptyObj],
      [json |-> TRUE, text |-> "{h,p}",
       data |-> [history |-> [arr |-> <<"e1">>], pagination |-> [obj |-> "pg"]]] }

\* the body of an error response is at most read as text
ErrorBodies == { [json |-> FALSE, text |-> "<html>", data |-> EmptyObj] }

ResponsesWith(statuses, okBodies, errBodies) ==
    { Response(s, b.json, b.text, b.data) :
        s \in {x \in statuses : x < 400}, b \in okBodies }
    \cup { Response(s, b.json, b.text, b.data) :
        s \in {x \in statuses : x >= 400}, b \in errBodies }

HistoryResponses == ResponsesWith(Statuses, HistoryBodies, ErrorBodies)

\* every shape of HistoryQueryOptions: each field absent or present
HistoryOptionsAll ==
    { a @@ l @@ p :
        a \in { EmptyObj, [all |-> TRUE], [all |-> FALSE] },
        l \in { EmptyObj, [limit |-> [num |-> 0]], [limit |-> [num |-> 20]],
                [limit |-> [str |-> "all"]] },
        p \in { EmptyObj, [page |-> 0], [page |-> 2] } }

\* bodies a history response can carry: not JSON, null, and objects whose
\* history and pagination fields are missing, null, of another type or as typed
HistoryBodiesAll ==
    HistoryBodies
    \cup { [json |-> TRUE, text |-> "null", data |-> [null |-> TRUE]],
           [json |-> TRUE, text |-> "{h:str,p:null}",
            data |-> [history |-> [str |-> "none"], pagination |-> [null |-> TRUE]]],
           [json |-> TRUE, text |-> "{h:[]}", data |-> [history |-> [arr |-> <<>>]]],
           [json |-> TRUE, text |-> "{p}", data |-> [pagination |-> [obj |-> "pg"]]] }

HistoryResponsesAll == ResponsesWith(Statuses, HistoryBodiesAll, ErrorBodies)

\* what a transport promise settles with: a response or a rejection
Settled(responses) ==
    { [thrown |-> FALSE, res |-> r, msg |-> ""] : r \in responses }
    \cup { [thrown |-> TRUE, res |-> NoRes, msg |-> "network down"] }

SignalOptions ==
    { [ticker |-> "SOL"],
      [ticker |-> "SOL", timeframe |-> "4h", metadata |-> [source |-> "tool"]] }

SignalBodies ==
    { [json |-> FALSE, text |-> "<html>", data |-> EmptyObj],
      [json |-> TRUE, text |-> "{signal}",
       data |-> [success |-> TRUE, consensus |-> [stance |-> "long"]]] }

SignalResponses == ResponsesWith(Statuses, SignalBodies, ErrorBodies)

ChallengeBodies ==
    { [json |-> FALSE, text |-> "<html>", data |-> EmptyObj],
      [json |-> TRUE, text |-> "{c1}",
       data |-> [challenge |-> "c1", challengeToken |-> "ct1"]],
      [json |-> TRUE, text |-> "{c2}",
       data |-> [challenge |-> "c2", challengeToken |-> "ct2"]] }

ChallengeResponses == ResponsesWith(AuthStatuses, ChallengeBodies, ErrorBodies)

ExchangeRefusals ==
    { [json |-> FALSE, text |-> "<html>", data |-> EmptyObj],
      [json |-> TRUE, text |-> "{}", data |-> EmptyObj],
      [json |-> TRUE, text |-> "{error}", data |-> [error |-> "bad signature"]] }

TokenBody(t) == [json |-> TRUE, text |-> "{" \o t \o "}", data |-> [token |-> t]]

ExchangeBodies == ExchangeRefusals \cup { TokenBody(t) : t \in Tokens }

ExchangeResponses ==
    ResponsesWith(AuthStatuses, ExchangeBodies,
                  ExchangeRefusals \cup { TokenBody("t1") })

(***************************************************************************)
(* bs58.decode over a string given as its sequence of alphabet indices     *)
(* ('1' is 0, 'z' is 57): one zero byte per leading '1', then the rest as  *)
(* a base-58 number written in bytes, big end first.                       *)
(***************************************************************************)
Rep(n, x) == [i \in 1..n |-> x]

RECURSIVE LeadingZeros(_)
LeadingZeros(s) ==
    IF s = <<>> \/ s[1] # 0 THEN 0 ELSE 1 + LeadingZeros(Tail(s))

\* b := b * 58 + carry, from the last byte of b to the first
RECURSIVE MulAdd(_, _, _)
MulAdd(b, i, carry) ==
    IF i = 0 THEN b
    ELSE LET v == b[i] * 58 + carry
         IN MulAdd([b EXCEPT ![i] = v % 256], i - 1, v \div 256)

RECURSIVE DecodeDigits(_, _)
DecodeDigits(ds, b) ==
    IF ds = <<>> THEN b
    ELSE DecodeDigits(Tail(ds), MulAdd(b, Len(b), ds[1]))

RECURSIVE StripZeros(_)
StripZeros(b) == IF b = <<>> \/ b[1] # 0 THEN b ELSE StripZeros(Tail(b))

Bs58Decode(s) ==
    LET z == LeadingZeros(s)
        rest == SubSeq(s, z + 1, Len(s))
    IN Rep(z, 0) \o StripZeros(DecodeDigits(rest, Rep(Len(rest), 0)))

\* bs58.encode / PublicKey.toBase58 of a key or a signature: the text of x
Bs58Encode(x) == [b58 |-> x]

\* new TextEncoder().encode(s)
Utf8(s) == [utf8 |-> s]

\* an Ed25519 detached signature over msg, made with the key whose public half is pk
Signature(msg, pk) == [over |-> msg, by |-> pk]

(***************************************************************************)
(* normalizeSecretKey                                                      *)
(***************************************************************************)
SeedLength == 32
SecretKeyLength == 64

\* nacl.sign.keyPair.fromSeed: the public key is derived from the seed
KeyPairFromSeed(seed) ==
    [publicKey |-> [fromSeed |-> seed],
     secretKey |-> [seed |-> seed, pk |-> [fromSeed |-> seed]]]

\* nacl.sign.keyPair.fromSecretKey: the public key is the second half
KeyPairFromSecretKey(sk) ==
    [publicKey |-> [raw |-> SubSeq(sk, 33, 64)],
     secretKey |-> [seed |-> SubSeq(sk, 1, 32), pk |-> [raw |-> SubSeq(sk, 33, 64)]]]

KeyBytes(input) ==
    IF input.kind = "string" THEN Bs58Decode(input.chars)
    ELSE IF input.kind = "bytes" THEN input.bytes
    ELSE [i \in 1..Len(input.nums) |-> input.nums[i] % 256]

LengthMismatch == Err("LengthMismatch", 0, "")

\* normalizeSecretKey without the final throw: any other length passes as a seed
normalizeSecretKeyAnyLength(input) ==
    IF input.kind = "keypair"
    THEN [ok |-> TRUE, wallet |-> Bs58Encode(input.publicKey), secretKey |-> input.secretKey]
    ELSE LET keyBytes == KeyBytes(input)
             pair == IF Len(keyBytes) = SecretKeyLength
                     THEN KeyPairFromSecretKey(keyBytes)
                     ELSE KeyPairFromSeed(keyBytes)
         IN [ok |-> TRUE, wallet |-> Bs58Encode(pair.publicKey),
             secretKey |-> pair.secretKey]

normalizeSecretKey(input) ==
    IF input.kind = "keypair"
    THEN [ok |-> TRUE, wallet |-> Bs58Encode(input.publicKey), secretKey |-> input.secretKey]
    ELSE LET keyBytes == KeyBytes(input)
         IN IF Len(keyBytes) = SeedLength
            THEN LET pair == KeyPairFromSeed(keyBytes)
                 IN [ok |-> TRUE, wallet |-> Bs58Encode(pair.publicKey),
                     secretKey |-> pair.secretKey]
            ELSE IF Len(keyBytes) = SecretKeyLength
            THEN LET pair == KeyPairFromSecretKey(keyBytes)
                 IN [ok |-> TRUE, wallet |-> Bs58Encode(pair.publicKey),
                     secretKey |-> pair.secretKey]
            ELSE [ok |-> FALSE, wallet |-> Bs58Encode(EmptyObj), secretKey |-> EmptyObj]

SecretKeyInputs ==
    { [kind |-> "bytes", bytes |-> Rep(32, 7)],
      [kind |-> "string", chars |-> Rep(62, 0) \o <<4, 24>>],
      [kind |-> "keypair", publicKey |-> [raw |-> Rep(32, 9)],
       secretKey |-> [seed |-> Rep(32, 1), pk |-> [raw |-> Rep(32, 9)]]],
      [kind |-> "numbers", nums |-> Rep(33, 300)],
      [kind |-> "string", chars |-> Rep(20, 0) \o Rep(12, 1)] }

\* a WalletMessageSigner: its address is the base58 text of its public key
Wallets == { [address |-> Bs58Encode([raw |-> Rep(32, 9)])] }

\* what wallet.signMessage(msg) settles with
signMessage(w, msg, thrown) ==
    IF thrown THEN [thrown |-> TRUE, sig |-> EmptyObj, msg |-> "user rejected"]
    ELSE [thrown |-> FALSE, sig |-> Signature(msg, w.address.b58), msg |-> ""]

(***************************************************************************)
(* Initial state: a constructed client, the default in-memory store empty  *)
(***************************************************************************)
NoPayErr == [kind |-> "", message |-> [phrase |-> FALSE, addr |-> "", run |-> 0, validKey |-> FALSE]]

IdlePay ==
    [pc |-> "idle", args |-> EmptyObj, calls |-> <<>>, rems |-> <<>>,
     steps |-> <<>>, programId |-> "", caught |-> NoPayErr,
     thrown |-> FALSE, res |-> NoRes, err |-> NoPayErr]

ClientInit ==
    /\ tokenStore = NoToken
    /\ paymentClient \in {NoClient, "p1"}
    /\ lastWriter = 0
    /\ op = [c \in Calls |-> "idle"]
    /\ pc = [c \in Calls |-> "idle"]
    /\ arg = [c \in Calls |-> NoArg]
    /\ tok = [c \in Calls |-> NotRead]
    /\ log = [c \in Calls |-> <<>>]
    /\ res = [c \in Calls |-> NoRes]
    /\ writes = [c \in Calls |-> 0]
    /\ result = [c \in Calls |-> NoResult]
    /\ got = [c \in Calls |-> <<>>]

Init == ClientInit /\ pay = IdlePay

\* slot c can take a new call
Idle(c) == pc[c] = "idle"

\* the call settles: its promise resolves or rejects with r
Finish(c, r) ==
    /\ pc' = [pc EXCEPT ![c] = "done"]
    /\ result' = [result EXCEPT ![c] = r]

Thrown(msg) == Err("Thrown", 0, msg)

(***************************************************************************)
(* TokenStore, as LimenClient.getToken / setToken / clearToken use it      *)
(***************************************************************************)
StoreGet == tokenStore

StoreSet(c, t) ==
    /\ tokenStore' = t
    /\ lastWriter' = c
    /\ writes' = [writes EXCEPT ![c] = @ + 1]

StoreClear(c) ==
    /\ tokenStore' = NoToken
    /\ lastWriter' = c
    /\ writes' = [writes EXCEPT ![c] = @ + 1]

StoreUntouched == UNCHANGED <<tokenStore, lastWriter, writes>>

\* clearing only while the store still holds the token the call carried
clearTokenIfCarried(c) ==
    IF tokenStore = tok[c] THEN StoreClear(c) ELSE StoreUntouched

\* LimenClient.clearToken, as the 401 branches call it
clearToken(c) == StoreClear(c)

GetToken(c) ==
    /\ Idle(c)
    /\ op' = [op EXCEPT ![c] = "getToken"]
    /\ Finish(c, Returned([token |-> StoreGet]))
    /\ StoreUntouched
    /\ UNCHANGED <<paymentClient, arg, tok, log, res, got, pay>>

SetToken(c, t) ==
    /\ Idle(c)
    /\ op' = [op EXCEPT ![c] = "setToken"]
    /\ arg' = [arg EXCEPT ![c] = [token |-> t]]
    /\ StoreSet(c, t)
    /\ Finish(c, Returned(Void))
    /\ UNCHANGED <<paymentClient, tok, log, res, got, pay>>

ClearToken(c) ==
    /\ Idle(c)
    /\ op' = [op EXCEPT ![c] = "clearToken"]
    /\ StoreClear(c)
    /\ Finish(c, Returned(Void))
    /\ UNCHANGED <<paymentClient, arg, tok, log, res, got, pay>>

SetPaymentClient(p) ==
    /\ paymentClient # p
    /\ paymentClient' = p
    /\ StoreUntouched
    /\ UNCHANGED <<op, pc, arg, tok, log, res, result, got, pay>>

\* the caller has consumed the settled promise; the slot is free again
Return(c) ==
    /\ pc[c] = "done"
    /\ op' = [op EXCEPT ![c] = "idle"]
    /\ pc' = [pc EXCEPT ![c] = "idle"]
    /\ arg' = [arg EXCEPT ![c] = NoArg]
    /\ tok' = [tok EXCEPT ![c] = NotRead]
    /\ log' = [log EXCEPT ![c] = <<>>]
    /\ res' = [res EXCEPT ![c] = NoRes]
    /\ writes' = [writes EXCEPT ![c] = 0]
    /\ result' = [result EXCEPT ![c] = NoResult]
    /\ got' = [got EXCEPT ![c] = <<>>]
    /\ UNCHANGED <<tokenStore, paymentClient, lastWriter, pay>>

(***************************************************************************)
(* requireToken: the read happens when the method is called, the check     *)
(* after the await                                                         *)
(***************************************************************************)
requireTokenRead(c) == tok' = [tok EXCEPT ![c] = StoreGet]

Unauthenticated == Err("Unauthenticated", 0, "")
Unauthorized == Err("Unauthorized", 0, "")
NoPaymentClient == Err("NoPaymentClient", 0, "")
PaymentRequired == Err("PaymentRequired", 0, "")

Bearer(t) == "Bearer " \o t
NoHeader == ""

\* res.status === 401 in authorizedFetch
AuthorizedFetchExpiredNever(status) == FALSE
AuthorizedFetchExpired(status) == status = 401

\* res.status === 401 and res.status === 402 in requestSignal
SignalExpiredNever(status) == FALSE
SignalExpiredOrUnpaid(status) == status \in {401, 402}
SignalExpired(status) == status = 401

SignalPaymentRequiredNever(status) == FALSE
SignalPaymentRequired(status) == status = 402

(***************************************************************************)
(* getHistory -> authorizedFetch                                           *)
(***************************************************************************)
\* init.method ?? "POST"
AuthorizedFetchMethod(init) == IF Has(init, "method") THEN init.method ELSE "POST"

\* getHistory calls authorizedFetch(path) with no init
GetHistoryInit == EmptyObj

GetHistoryStart(c, o) ==
    /\ Idle(c)
    /\ op' = [op EXCEPT ![c] = "getHistory"]
    /\ arg' = [arg EXCEPT ![c] = o]
    /\ requireTokenRead(c)
    /\ pc' = [pc EXCEPT ![c] = "haveToken"]
    /\ StoreUntouched
    /\ UNCHANGED <<paymentClient, log, res, result, got, pay>>

\* authorizedFetch after `await this.requireToken()`
AuthorizedFetchSend(c) ==
    /\ op[c] = "getHistory" /\ pc[c] = "haveToken"
    /\ IF Falsy(tok[c])
       THEN /\ Finish(c, Threw(Unauthenticated))
            /\ UNCHANGED log
       ELSE /\ log' = [log EXCEPT ![c] = Append(@,
                         Request("fetchFn", AuthorizedFetchMethod(GetHistoryInit),
                                 HistoryPath(arg[c]), Bearer(tok[c]),
                                 Has(GetHistoryInit, "body"), NoBody))]
            /\ pc' = [pc EXCEPT ![c] = "awaitRes"]
            /\ UNCHANGED result
    /\ StoreUntouched
    /\ UNCHANGED <<paymentClient, op, arg, tok, res, got, pay>>

\* getHistory after `await this.authorizedFetch(...)`: parseJson, then the
\* result; reading a field of a decoded null throws
TypeError == Err("TypeError", 0, "")

GetHistoryDecode(r) ==
    LET data == parseJson(r)
    IN IF data.kind = "err" THEN data
       ELSE IF data.val = [null |-> TRUE] THEN Threw(TypeError)
       ELSE Returned(HistoryResult(data.val))

\* authorizedFetch after `await this.fetchFn(...)`, then getHistory's decoding
GetHistorySettle(c, s) ==
    /\ op[c] = "getHistory" /\ pc[c] = "awaitRes"
    /\ res' = [res EXCEPT ![c] = s.res]
    /\ got' = [got EXCEPT ![c] = Append(@, s)]
    /\ IF s.thrown
       THEN /\ Finish(c, Threw(Thrown(s.msg)))
            /\ StoreUntouched
       ELSE IF AuthorizedFetchExpired(s.res.status)
       THEN /\ clearToken(c)
            /\ pc' = [pc EXCEPT ![c] = "clearing"]
            /\ UNCHANGED result
       ELSE IF s.res.status >= 400
       THEN /\ Finish(c, Threw(Err("RequestFailed", s.res.status, s.res.text)))
            /\ StoreUntouched
       ELSE /\ Finish(c, GetHistoryDecode(s.res))
            /\ StoreUntouched
    /\ UNCHANGED <<paymentClient, op, arg, tok, log, pay>>

\* after `await this.clearToken()`: throw new Error("Unauthorized: ...")
UnauthorizedReissue(c) ==
    /\ pc[c] = "clearing"
    /\ log' = [log EXCEPT ![c] = Append(@, log[c][1])]
    /\ pc' = [pc EXCEPT ![c] = "awaitRes"]
    /\ StoreUntouched
    /\ UNCHANGED <<paymentClient, op, arg, tok, res, result, got, pay>>

UnauthorizedThrow(c) ==
    /\ pc[c] = "clearing"
    /\ Finish(c, Threw(Unauthorized))
    /\ StoreUntouched
    /\ UNCHANGED <<paymentClient, op, arg, tok, log, res, got, pay>>

(***************************************************************************)
(* requestSignal                                                           *)
(***************************************************************************)
\* JSON.stringify({ticker, timeframe: options.timeframe ?? "1d", metadata})
SignalBody(o) ==
    LET base == [ticker |-> o.ticker,
                 timeframe |-> IF Has(o, "timeframe") THEN o.timeframe ELSE "1d"]
    IN IF Has(o, "metadata")
       THEN [ticker |-> base.ticker, timeframe |-> base.timeframe,
             metadata |-> o.metadata]
       ELSE base

\* requestSignal reading the token before it looks for the payment client
RequestSignalStartTokenFirst(c, o) ==
    /\ Idle(c)
    /\ op' = [op EXCEPT ![c] = "requestSignal"]
    /\ arg' = [arg EXCEPT ![c] = o]
    /\ requireTokenRead(c)
    /\ IF paymentClient = NoClient
       THEN Finish(c, Threw(NoPaymentClient))
       ELSE /\ pc' = [pc EXCEPT ![c] = "haveToken"]
            /\ UNCHANGED result
    /\ StoreUntouched
    /\ UNCHANGED <<paymentClient, log, res, got, pay>>

RequestSignalStart(c, o) ==
    /\ Idle(c)
    /\ op' = [op EXCEPT ![c] = "requestSignal"]
    /\ arg' = [arg EXCEPT ![c] = o]
    /\ IF paymentClient = NoClient
       THEN /\ Finish(c, Threw(NoPaymentClient))
            /\ UNCHANGED tok
       ELSE /\ requireTokenRead(c)
            /\ pc' = [pc EXCEPT ![c] = "haveToken"]
            /\ UNCHANGED result
    /\ StoreUntouched
    /\ UNCHANGED <<paymentClient, log, res, got, pay>>

\* after `await this.requireToken()`: this.paymentClient.fetch(...)
RequestSignalSend(c) ==
    /\ op[c] = "requestSignal" /\ pc[c] = "haveToken"
    /\ IF Falsy(tok[c])
       THEN /\ Finish(c, Threw(Unauthenticated))
            /\ UNCHANGED log
       ELSE /\ log' = [log EXCEPT ![c] = Append(@,
                         Request(paymentClient, "POST", "/api/analyze/signal",
                                 Bearer(tok[c]), TRUE, SignalBody(arg[c])))]
            /\ pc' = [pc EXCEPT ![c] = "awaitRes"]
            /\ UNCHANGED result
    /\ StoreUntouched
    /\ UNCHANGED <<paymentClient, op, arg, tok, res, got, pay>>

\* after `await this.paymentClient.fetch(...)`
RequestSignalSettle(c, s) ==
    /\ op[c] = "requestSignal" /\ pc[c] = "awaitRes"
    /\ res' = [res EXCEPT ![c] = s.res]
    /\ got' = [got EXCEPT ![c] = Append(@, s)]
    /\ IF s.thrown
       THEN /\ Finish(c, Threw(Thrown(s.msg)))
            /\ StoreUntouched
       ELSE IF SignalExpired(s.res.status)
       THEN /\ clearToken(c)
            /\ pc' = [pc EXCEPT ![c] = "clearing"]
            /\ UNCHANGED result
       ELSE IF SignalPaymentRequired(s.res.status)
       THEN /\ Finish(c, Threw(PaymentRequired))
            /\ StoreUntouched
       ELSE IF s.res.status >= 400
       THEN /\ Finish(c, Threw(Err("SignalFailed", s.res.status, s.res.text)))
            /\ StoreUntouched
       ELSE /\ Finish(c, parseJson(s.res))
            /\ StoreUntouched
    /\ UNCHANGED <<paymentClient, op, arg, tok, log, pay>>

(***************************************************************************)
(* auth.ts: fetchChallenge, exchangeSignatureForToken and the two paths    *)
(***************************************************************************)
ChallengeRequest ==
    Request("fetchFn", "GET", "/api/auth/challenge", NoHeader, FALSE, NoBody)

\* the exchange body with the challenge text sent in place of its token
ExchangeRequestChallengeText(wallet, signature, challengeToken) ==
    Request("fetchFn", "POST", "/api/auth", NoHeader, TRUE,
            [wallet |-> wallet, signature |-> signature,
             challengeToken |-> signature.b58.over.utf8])

ExchangeRequest(wallet, signature, challengeToken) ==
    Request("fetchFn", "POST", "/api/auth", NoHeader, TRUE,
            [wallet |-> wallet, signature |-> signature,
             challengeToken |-> challengeToken])

\* fetchChallenge after `await fetchFn(...)`
fetchChallenge(r) ==
    IF r.status >= 400 THEN Threw(Err("ChallengeFailed", r.status, r.text))
    ELSE parseJson(r)

\* exchangeSignatureForToken after `await fetchFn(...)`
exchangeSignatureForTokenGeneric(r) ==
    LET body == parseJson(r)
    IN IF body.kind = "err" THEN body
       ELSE IF r.status >= 400 \/ ~Has(body.val, "token") \/ body.val.token = ""
       THEN Threw(Err("AuthFailed", r.status, ""))
       ELSE Returned([token |-> body.val.token])

\* exchangeSignatureForToken taking the token of any body that has one
exchangeSignatureForTokenAnyStatus(r) ==
    LET body == parseJson(r)
    IN IF body.kind = "err" THEN body
       ELSE IF ~Has(body.val, "token") \/ body.val.token = ""
       THEN Threw(IF Has(body.val, "error") /\ body.val.error # ""
                  THEN Err("ServerMessage", 0, body.val.error)
                  ELSE Err("AuthFailed", r.status, ""))
       ELSE Returned([token |-> body.val.token])

exchangeSignatureForToken(r) ==
    LET body == parseJson(r)
    IN IF body.kind = "err" THEN body
       ELSE IF r.status >= 400 \/ ~Has(body.val, "token") \/ body.val.token = ""
       THEN Threw(IF Has(body.val, "error") /\ body.val.error # ""
                  THEN Err("ServerMessage", 0, body.val.error)
                  ELSE Err("AuthFailed", r.status, ""))
       ELSE Returned([token |-> body.val.token])

\* bs58.encode(nacl.sign.detached(message, normalizedSecret))
SecretKeySignatureRaw(message, secretKey) == Signature(message, secretKey.pk)
SecretKeySignature(message, secretKey) ==
    Bs58Encode(Signature(message, secretKey.pk))

AuthenticateWithWalletStart(c, w) ==
    /\ Idle(c)
    /\ op' = [op EXCEPT ![c] = "authenticateWithWallet"]
    /\ arg' = [arg EXCEPT ![c] = [wallet |-> w]]
    /\ log' = [log EXCEPT ![c] = Append(@, ChallengeRequest)]
    /\ pc' = [pc EXCEPT ![c] = "awaitChallenge"]
    /\ StoreUntouched
    /\ UNCHANGED <<paymentClient, tok, res, result, got, pay>>

AuthenticateWithSecretKeyStart(c, k) ==
    /\ Idle(c)
    /\ op' = [op EXCEPT ![c] = "authenticateWithSecretKey"]
    /\ arg' = [arg EXCEPT ![c] = [secretKey |-> k]]
    /\ IF normalizeSecretKey(k).ok
       THEN /\ log' = [log EXCEPT ![c] = Append(@, ChallengeRequest)]
            /\ pc' = [pc EXCEPT ![c] = "awaitChallenge"]
            /\ UNCHANGED result
       ELSE /\ Finish(c, Threw(LengthMismatch))
            /\ UNCHANGED log
    /\ StoreUntouched
    /\ UNCHANGED <<paymentClient, tok, res, got, pay>>

\* LimenClient.authenticateWith*: `await this.setToken(token)`
AuthenticateStoreSkipped(c, token) == StoreUntouched
AuthenticateStore(c, token) == StoreSet(c, token)

\* after `await fetchChallenge(...)`: the wallet path asks the wallet to sign,
\* the secret-key path signs and posts the exchange
ChallengeSettle(c, s) ==
    /\ op[c] \in {"authenticateWithWallet", "authenticateWithSecretKey"}
    /\ pc[c] = "awaitChallenge"
    /\ res' = [res EXCEPT ![c] = s.res]
    /\ got' = [got EXCEPT ![c] = Append(@, s)]
    /\ IF s.thrown
       THEN /\ Finish(c, Threw(Thrown(s.msg)))
            /\ UNCHANGED log
       ELSE LET ch == fetchChallenge(s.res)
            IN IF ch.kind = "err"
               THEN /\ Finish(c, ch)
                    /\ UNCHANGED log
               ELSE IF op[c] = "authenticateWithWallet"
               THEN /\ pc' = [pc EXCEPT ![c] = "awaitSign"]
                    /\ UNCHANGED <<log, result>>
               ELSE LET n == normalizeSecretKey(arg[c].secretKey)
                        message == Utf8(ch.val.challenge)
                        signature == SecretKeySignature(message, n.secretKey)
                    IN /\ log' = [log EXCEPT ![c] = Append(@,
                                    ExchangeRequest(n.wallet, signature,
                                                    ch.val.challengeToken))]
                       /\ pc' = [pc EXCEPT ![c] = "awaitExchange"]
                       /\ UNCHANGED result
    /\ StoreUntouched
    /\ UNCHANGED <<paymentClient, op, arg, tok, pay>>

\* after `await wallet.signMessage(...)`
SignSettle(c, thrown) ==
    /\ op[c] = "authenticateWithWallet" /\ pc[c] = "awaitSign"
    /\ LET o == signMessage(arg[c].wallet, Utf8(res[c].data.challenge), thrown)
       IN IF o.thrown
          THEN /\ Finish(c, Threw(Thrown(o.msg)))
               /\ UNCHANGED log
          ELSE /\ log' = [log EXCEPT ![c] = Append(@,
                            ExchangeRequest(arg[c].wallet.address, Bs58Encode(o.sig),
                                            res[c].data.challengeToken))]
               /\ pc' = [pc EXCEPT ![c] = "awaitExchange"]
               /\ UNCHANGED result
    /\ StoreUntouched
    /\ UNCHANGED <<paymentClient, op, arg, tok, res, got, pay>>

\* after `await exchangeSignatureForToken(...)`: LimenClient stores the token
ExchangeSettle(c, s) ==
    /\ op[c] \in {"authenticateWithWallet", "authenticateWithSecretKey"}
    /\ pc[c] = "awaitExchange"
    /\ res' = [res EXCEPT ![c] = s.res]
    /\ got' = [got EXCEPT ![c] = Append(@, s)]
    /\ IF s.thrown
       THEN /\ Finish(c, Threw(Thrown(s.msg)))
            /\ StoreUntouched
       ELSE LET ex == exchangeSignatureForToken(s.res)
            IN IF ex.kind = "err"
               THEN /\ Finish(c, ex)
                    /\ StoreUntouched
               ELSE /\ AuthenticateStore(c, ex.val.token)
                    /\ pc' = [pc EXCEPT ![c] = "storing"]
                    /\ UNCHANGED result
    /\ UNCHANGED <<paymentClient, op, arg, tok, log, pay>>

\* after `await this.setToken(token)`: return token
AuthenticateReturn(c) ==
    /\ pc[c] = "storing"
    /\ Finish(c, Returned([token |-> res[c].data.token]))
    /\ StoreUntouched
    /\ UNCHANGED <<paymentClient, op, arg, tok, log, res, got, pay>>

ClientNext ==
    \/ \E c \in Calls : GetToken(c)
    \/ \E c \in Calls, t \in Tokens : SetToken(c, t)
    \/ \E c \in Calls : ClearToken(c)
    \/ \E p \in PayClients : SetPaymentClient(p)
    \/ \E c \in Calls : Return(c)
    \/ \E c \in Calls, o \in HistoryOptions : GetHistoryStart(c, o)
    \/ \E c \in Calls : AuthorizedFetchSend(c)
    \/ \E c \in Calls, s \in Settled(HistoryResponses) : GetHistorySettle(c, s)
    \/ \E c \in Calls : UnauthorizedThrow(c)
    \/ \E c \in Calls, o \in SignalOptions : RequestSignalStart(c, o)
    \/ \E c \in Calls : RequestSignalSend(c)
    \/ \E c \in Calls, s \in Settled(SignalResponses) : RequestSignalSettle(c, s)
    \/ \E c \in Calls, w \in Wallets : AuthenticateWithWalletStart(c, w)
    \/ \E c \in Calls, k \in SecretKeyInputs : AuthenticateWithSecretKeyStart(c, k)
    \/ \E c \in Calls, s \in Settled(ChallengeResponses) : ChallengeSettle(c, s)
    \/ \E c \in Calls, thrown \in BOOLEAN : SignSettle(c, thrown)
    \/ \E c \in Calls, s \in Settled(ExchangeResponses) : ExchangeSettle(c, s)
    \/ \E c \in Calls : AuthenticateReturn(c)

(***************************************************************************)
(* createKeypairPaymentClient: the fetch it returns, one call at a time    *)
(***************************************************************************)
\* the text of an error: whether it holds "Associated Token Account for "
\* followed by a run of base58 characters, how long the run is, the address
\* the run starts with, and whether new PublicKey accepts the captured text
Message(phrase, addr, run, validKey) ==
    [phrase |-> phrase, addr |-> addr, run |-> run, validKey |-> validKey]
PlainMessage(t) == [phrase |-> FALSE, addr |-> t, run |-> 0, validKey |-> FALSE]

PayErr(kind, message) == [kind |-> kind, message |-> message]

MintMinLength == 32
MintMaxLength == 44

\* the match without the lower bound on the length of the address
MintMatchAnyLength(m) ==
    IF m.phrase
    THEN [matched |-> TRUE,
          mint |-> [addr |-> m.addr,
                    len |-> IF m.run > MintMaxLength THEN MintMaxLength ELSE m.run]]
    ELSE [matched |-> FALSE, mint |-> [addr |-> "", len |-> 0]]

\* message.match(/Associated Token Account for ([1-9A-HJ-NP-Za-km-z]{32,44})/)
MintMatch(m) ==
    IF m.phrase /\ m.run >= MintMinLength
    THEN [matched |-> TRUE,
          mint |-> [addr |-> m.addr,
                    len |-> IF m.run > MintMaxLength THEN MintMaxLength ELSE m.run]]
    ELSE [matched |-> FALSE, mint |-> [addr |-> "", len |-> 0]]

BaseMessages ==
    { PlainMessage("insufficient funds"),
      Message(TRUE, "M1", 31, FALSE),
      Message(TRUE, "M1", 32, TRUE),
      Message(TRUE, "M2", 44, TRUE),
      Message(TRUE, "M2", 45, FALSE) }

\* what baseClient.fetch (the x402 client) settles with
BaseOutcomes ==
    { [thrown |-> FALSE, res |-> r, err |-> NoPayErr] : r \in SignalResponses }
    \cup { [thrown |-> TRUE, res |-> NoRes, err |-> PayErr("x402", m)] : m \in BaseMessages }

\* the (input, init) the adapter's fetch is called with
PayRequests ==
    { Request("keypair", "POST", "/api/analyze/signal", Bearer(t), TRUE, SignalBody(o)) :
        t \in Tokens, o \in SignalOptions }

PaySettled(o) ==
    [pay EXCEPT !.pc = "done", !.thrown = o.thrown, !.res = o.res, !.err = o.err]
PayThrows(e) ==
    [pay EXCEPT !.pc = "done", !.thrown = TRUE, !.err = e]

\* return baseClient.fetch(input, init), after the remediation
PayRetry(p) ==
    [p EXCEPT !.pc = "retry", !.calls = Append(@, p.args)]

\* fetch(input, init): try { return await baseClient.fetch(input, init) }
PayFetch(rq) ==
    /\ pay.pc = "idle"
    /\ pay' = [pay EXCEPT !.pc = "first", !.args = rq, !.calls = Append(@, rq)]
    /\ UNCHANGED clientVars

\* the first call settles; catch (err): look for the mint, start remediation
PayFirstSettle(o) ==
    /\ pay.pc = "first"
    /\ IF ~o.thrown
       THEN pay' = PaySettled(o)
       ELSE LET mintMatch == MintMatch(o.err.message)
            IN IF ~mintMatch.matched
               THEN pay' = PaySettled(o)
               ELSE IF ~o.err.message.validKey
               THEN pay' = [PayThrows(PayErr("InvalidPublicKey", o.err.message))
                              EXCEPT !.caught = o.err,
                                     !.rems = Append(@, mintMatch.mint),
                                     !.steps = Append(@, "newPublicKey")]
               ELSE pay' = [pay EXCEPT !.pc = "mintInfo",
                                       !.caught = o.err,
                                       !.rems = Append(@, mintMatch.mint),
                                       !.steps = Append(@, "getMintInfo")]
    /\ UNCHANGED clientVars

\* ensureAssociatedTokenAccount after `await connection.getAccountInfo(mintPubkey)`
MintInfoSettle(o) ==
    /\ pay.pc = "mintInfo"
    /\ pay' = IF o = "throws" THEN PayThrows(PayErr("Rpc", PlainMessage("getAccountInfo")))
              ELSE IF o = "null" THEN PayThrows(PayErr("MintMissing", PlainMessage("")))
              ELSE [pay EXCEPT !.pc = "ataInfo",
                               !.programId = IF o = "token2022" THEN "TOKEN_2022_PROGRAM_ID"
                                             ELSE "TOKEN_PROGRAM_ID",
                               !.steps = @ \o <<"getAssociatedTokenAddress", "getAtaInfo">>]
    /\ UNCHANGED clientVars

\* after `await connection.getAccountInfo(ata)`
AtaInfoSettle(o) ==
    /\ pay.pc = "ataInfo"
    /\ pay' = IF o = "throws" THEN PayThrows(PayErr("Rpc", PlainMessage("getAccountInfo")))
              ELSE IF o = "exists" THEN PayRetry(pay)
              ELSE [pay EXCEPT !.pc = "blockhash",
                               !.steps = Append(@, "getLatestBlockhash")]
    /\ UNCHANGED clientVars

\* after `await connection.getLatestBlockhash()`: sign and send the transaction
BlockhashSettle(o) ==
    /\ pay.pc = "blockhash"
    /\ pay' = IF o = "throws" THEN PayThrows(PayErr("Rpc", PlainMessage("getLatestBlockhash")))
              ELSE [pay EXCEPT !.pc = "send",
                               !.steps = Append(@, "sendRawTransaction")]
    /\ UNCHANGED clientVars

\* the retry made as soon as the transaction is sent, without the confirmation
SendSettleNoConfirm(o) ==
    /\ pay.pc = "send"
    /\ pay' = IF o = "throws" THEN PayThrows(PayErr("Rpc", PlainMessage("sendRawTransaction")))
              ELSE PayRetry(pay)
    /\ UNCHANGED clientVars

\* after `await connection.sendRawTransaction(...)`
SendSettle(o) ==
    /\ pay.pc = "send"
    /\ pay' = IF o = "throws" THEN PayThrows(PayErr("Rpc", PlainMessage("sendRawTransaction")))
              ELSE [pay EXCEPT !.pc = "confirm",
                               !.steps = Append(@, "confirmTransaction")]
    /\ UNCHANGED clientVars

\* after `await connection.confirmTransaction(...)`: back in fetch, the retry
ConfirmSettle(o) ==
    /\ pay.pc = "confirm"
    /\ pay' = IF o = "throws" THEN PayThrows(PayErr("Rpc", PlainMessage("confirmTransaction")))
              ELSE PayRetry([pay EXCEPT !.steps = Append(@, o)])
    /\ UNCHANGED clientVars

\* the retry settles: whatever it is goes to the caller
PayRetrySettleAgain(o) ==
    /\ pay.pc = "retry"
    /\ IF o.thrown /\ MintMatch(o.err.message).matched /\ Len(pay.rems) < 3
       THEN pay' = [pay EXCEPT !.pc = "mintInfo",
                               !.rems = Append(@, MintMatch(o.err.message).mint),
                               !.steps = Append(@, "getMintInfo")]
       ELSE pay' = PaySettled(o)
    /\ UNCHANGED clientVars

PayRetrySettle(o) ==
    /\ pay.pc = "retry"
    /\ pay' = PaySettled(o)
    /\ UNCHANGED clientVars

PayReturn ==
    /\ pay.pc = "done"
    /\ pay' = IdlePay
    /\ UNCHANGED clientVars

PayNext ==
    \/ \E rq \in PayRequests : PayFetch(rq)
    \/ \E o \in BaseOutcomes : PayFirstSettle(o)
    \/ \E o \in {"throws", "null", "token", "token2022"} : MintInfoSettle(o)
    \/ \E o \in {"throws", "null", "exists"} : AtaInfoSettle(o)
    \/ \E o \in {"throws", "ok"} : BlockhashSettle(o)
    \/ \E o \in {"throws", "ok"} : SendSettle(o)
    \/ \E o \in {"throws", "confirmed", "failed"} : ConfirmSettle(o)
    \/ \E o \in BaseOutcomes : PayRetrySettle(o)
    \/ PayReturn

Next == ClientNext

Spec == Init /\ [][Next]_vars

\* getHistory on its own, one call at a time, over every shape of options
\* and of response body
HistoryNext ==
    \/ \E t \in Tokens : SetToken(1, t)
    \/ Return(1)
    \/ \E o \in HistoryOptionsAll : GetHistoryStart(1, o)
    \/ AuthorizedFetchSend(1)
    \/ \E s \in Settled(HistoryResponsesAll) : GetHistorySettle(1, s)
    \/ UnauthorizedThrow(1)

SpecHistory == Init /\ [][HistoryNext]_vars

\* the payment adapter on its own: the client stands still
SpecPay == Init /\ [][PayNext]_vars

(***************************************************************************)
(* Properties                                                              *)
(***************************************************************************)
IsAuthorized(c) == op[c] \in {"getHistory", "requestSignal"}
IsAuthenticate(c) == op[c] \in {"authenticateWithWallet", "authenticateWithSecretKey"}

\* C1: an authorized call whose response has status 401 has cleared the token
\* store before it fails, and fails with the auth-expired error; as long as
\* nobody else has written the store since, the store holds no token.
C1_ClearedBefore401Fails ==
    \A c \in Calls :
        (IsAuthorized(c) /\ res[c].status = 401) =>
            /\ pc[c] \in {"clearing", "done"}
            /\ tok[c] \in Tokens
            /\ writes[c] = 1
            /\ lastWriter = c => tokenStore = NoToken
            /\ pc[c] = "done" => result[c] = Threw(Unauthorized)

C1_Witness ==
    \E c \in Calls :
        /\ op[c] = "getHistory" /\ pc[c] = "done" /\ res[c].status = 401
        /\ result[c] = Threw(Unauthorized)
        /\ lastWriter = c /\ tokenStore = NoToken

\* C2: an authorized call that found no token in the store fails with the
\* unauthenticated error, hands nothing to the transport or the payment
\* transport, and does not write the store.
C2_NoTokenNoCall ==
    \A c \in Calls :
        (IsAuthorized(c) /\ tok[c] = NoToken) =>
            /\ pc[c] \in {"haveToken", "done"}
            /\ log[c] = <<>>
            /\ writes[c] = 0
            /\ pc[c] = "done" => result[c] = Threw(Unauthenticated)

C2_Witness ==
    \E c \in Calls :
        /\ op[c] = "requestSignal" /\ tok[c] = NoToken /\ pc[c] = "done"
        /\ result[c] = Threw(Unauthenticated) /\ log[c] = <<>>

\* C3: a successful authentication has written its token t to the store before
\* it returns t; until somebody else writes the store, the store holds t, an
\* authorized call that starts reads t, and every authorized call attaches
\* "Bearer " + the token it read.
C3_Stored(c) ==
    (IsAuthenticate(c) /\ (pc[c] = "storing" \/ (pc[c] = "done" /\ result[c].kind = "ok"))) =>
        /\ res[c].status < 400 /\ res[c].json /\ res[c].data.token \in Tokens
        /\ writes[c] = 1
        /\ pc[c] = "done" => result[c] = Returned([token |-> res[c].data.token])
        /\ lastWriter = c => tokenStore = res[c].data.token

C3_TokenStoredOnSuccess ==
    /\ [](\A c \in Calls : C3_Stored(c))
    /\ [](\A d \in Calls :
            (IsAuthorized(d) /\ log[d] # <<>>) => log[d][1].auth = Bearer(tok[d]))
    /\ [][\A c, d \in Calls :
            (/\ IsAuthenticate(c) /\ pc[c] = "done" /\ result[c].kind = "ok"
             /\ lastWriter = c
             /\ pc[d] = "idle" /\ pc'[d] = "haveToken")
            => tok'[d] = result[c].val.token]_vars

C3_Witness ==
    \E c, d \in Calls :
        /\ IsAuthenticate(c) /\ pc[c] = "done" /\ result[c].kind = "ok"
        /\ lastWriter = c /\ tokenStore = result[c].val.token
        /\ op[d] = "getHistory" /\ log[d] # <<>>
        /\ log[d][1].auth = Bearer(result[c].val.token)

\* C4: one call of the keypair payment client's fetch calls the underlying
\* transport at most twice and remediates at most once, always with the
\* arguments it was called with; a caught account-missing error for mint M
\* means one remediation for M; the second call comes only after the
\* remediation, and when it settles the call settles with it: no further
\* remediation, no third call.
C4_Bounded ==
    /\ Len(pay.calls) <= 2
    /\ Len(pay.rems) <= 1
    /\ \A i \in 1..Len(pay.calls) : pay.calls[i] = pay.args
    /\ MintMatch(pay.caught.message).matched
         => pay.rems = <<MintMatch(pay.caught.message).mint>>
    /\ Len(pay.calls) = 2 => Len(pay.rems) = 1
    /\ pay.pc = "retry" => Len(pay.calls) = 2

C4_RetryOnce ==
    /\ []C4_Bounded
    /\ [][pay.pc = "retry" =>
            /\ pay'.pc = "done"
            /\ pay'.calls = pay.calls /\ pay'.rems = pay.rems
            /\ pay'.steps = pay.steps]_vars

C4_Witness ==
    /\ pay.pc = "done" /\ Len(pay.calls) = 2 /\ Len(pay.rems) = 1
    /\ pay.thrown /\ MintMatch(pay.err.message).matched
    /\ MintMatch(pay.err.message).mint = pay.rems[1]

\* C5: the request getHistory hands to the transport carries method GET.
C5_HistoryIsGet ==
    \A c \in Calls :
        (op[c] = "getHistory" /\ log[c] # <<>>) => log[c][1].method = "GET"

\* C6 as claimed: whenever the exchange response has status >= 400 or no
\* token, authentication fails with the body's error field as message when
\* there is one and with "Auth failed (<status>)" otherwise, a body that does
\* not decode included.
ExchangeAnswered(c) ==
    IsAuthenticate(c) /\ pc[c] = "done" /\ Len(log[c]) = 2 /\ res[c] # NoRes

ExchangeRefused(r) ==
    r.status >= 400 \/ ~Has(r.data, "token") \/ r.data.token = ""

ExchangeMessage(r) ==
    IF Has(r.data, "error") /\ r.data.error # ""
    THEN Err("ServerMessage", 0, r.data.error)
    ELSE Err("AuthFailed", r.status, "")

BadLength(k) ==
    k.kind # "keypair" /\ Len(KeyBytes(k)) \notin {SeedLength, SecretKeyLength}

C7_BadLengthNoNetwork ==
    \A c \in Calls :
        (op[c] = "authenticateWithSecretKey" /\ BadLength(arg[c].secretKey)) =>
            /\ pc[c] = "done"
            /\ result[c] = Threw(LengthMismatch)
            /\ log[c] = <<>>
            /\ writes[c] = 0

C7_Witness ==
    \E c \in Calls :
        /\ op[c] = "authenticateWithSecretKey"
        /\ arg[c].secretKey.kind = "string" /\ Len(arg[c].secretKey.chars) = 32
        /\ BadLength(arg[c].secretKey)
        /\ result[c] = Threw(LengthMismatch)

\* C8: requestSignal maps the response status to one outcome: 401 to the
\* auth-expired error with the token cleared; 402 to the payment-required
\* error, which is not the request-failed error, the token untouched; any
\* other status >= 400 to the request-failed error with the status and the
\* body text; a status < 400 to the decoded payload.
C8_SignalStatusMap ==
    \A c \in Calls :
        (op[c] = "requestSignal" /\ pc[c] = "done" /\ res[c] # NoRes) =>
            LET r == res[c]
            IN /\ r.status = 401 =>
                    result[c] = Threw(Unauthorized) /\ writes[c] = 1
               /\ r.status = 402 =>
                    /\ result[c] = Threw(PaymentRequired)
                    /\ result[c].err.kind # "SignalFailed"
                    /\ writes[c] = 0
               /\ (r.status >= 400 /\ r.status \notin {401, 402}) =>
                    /\ result[c] = Threw(Err("SignalFailed", r.status, r.text))
                    /\ writes[c] = 0
               /\ (r.status < 400 /\ r.json) =>
                    result[c] = Returned(r.data) /\ writes[c] = 0

C8_Witness ==
    \E c \in Calls :
        /\ op[c] = "requestSignal" /\ pc[c] = "done" /\ res[c].status = 402
        /\ result[c] = Threw(PaymentRequired)
        /\ tokenStore = tok[c]

\* C9: requestSignal on a client without a payment client fails with the
\* no-payment-client error without reading the store or calling a transport,
\* token or no token; and the request of a requestSignal goes to the payment
\* client configured at that moment, never to the plain transport.
C9_PaymentClientRequired ==
    /\ [](\A c \in Calls :
            (op[c] = "requestSignal" /\ result[c] = Threw(NoPaymentClient)) =>
                tok[c] = NotRead /\ log[c] = <<>> /\ writes[c] = 0)
    /\ [][\A c \in Calls :
            (paymentClient = NoClient /\ pc[c] = "idle" /\ op'[c] = "requestSignal") =>
                /\ pc'[c] = "done" /\ result'[c] = Threw(NoPaymentClient)
                /\ tokenStore' = tokenStore]_vars
    /\ [][\A c \in Calls :
            (op[c] = "requestSignal" /\ Len(log'[c]) > Len(log[c])) =>
                /\ Len(log'[c]) = 1
                /\ log'[c][1].via = paymentClient
                /\ paymentClient \in PayClients]_vars

C9_Witness ==
    \E c, d \in Calls :
        /\ op[c] = "requestSignal" /\ log[c] # <<>> /\ log[c][1].via = "p2"
        /\ paymentClient = "p2"
        /\ op[d] = "requestSignal" /\ result[d] = Threw(NoPaymentClient)

\* C10: getHistory hands at most one request to the plain transport and
\* requestSignal at most one to the payment client, whatever the response;
\* after a 401 the call clears the token once and fails, with no further
\* request.
C10_Requests(c) ==
    IsAuthorized(c) =>
        /\ Len(log[c]) <= 1
        /\ writes[c] <= 1
        /\ \A i \in 1..Len(log[c]) :
              (log[c][i].via = "fetchFn") <=> (op[c] = "getHistory")
        /\ pc[c] = "done" /\ res[c] # NoRes => Len(log[c]) = 1
        /\ writes[c] = 1 => res[c].status = 401

C10_NoRetry ==
    /\ [](\A c \in Calls : C10_Requests(c))
    /\ [][\A c \in Calls :
            pc[c] = "clearing" =>
                /\ pc'[c] \in {"clearing", "done"}
                /\ log'[c] = log[c]
                /\ pc'[c] = "done" => tokenStore' = tokenStore]_vars

C10_Witness ==
    \E c, d \in Calls :
        /\ op[c] = "requestSignal" /\ pc[c] = "done" /\ res[c].status = 401
        /\ Len(log[c]) = 1 /\ writes[c] = 1
        /\ op[d] = "getHistory" /\ pc[d] = "done" /\ res[d].status = 500
        /\ Len(log[d]) = 1

\* C11: an authentication hands the transport the challenge GET first and the
\* exchange POST second and nothing else; the wallet is asked to sign only
\* after the challenge has arrived and the exchange is posted only after the
\* signature; the exchange carries the challengeToken of the challenge
\* response this very call received, unchanged, and a signature over the bytes
\* of that response's challenge text.
C11_Shape(c) ==
    IsAuthenticate(c) =>
        /\ Len(log[c]) <= 2
        /\ Len(log[c]) >= 1 => log[c][1] = ChallengeRequest
        /\ Len(log[c]) = 2 =>
              /\ log[c][2].method = "POST" /\ log[c][2].path = "/api/auth"
              /\ log[c][2].body.signature.b58.over.utf8 \in {"c1", "c2"}
        /\ pc[c] \in {"awaitChallenge", "awaitSign"} => Len(log[c]) = 1
        /\ pc[c] \in {"awaitExchange", "storing"} => Len(log[c]) = 2
        /\ pc[c] = "awaitSign" =>
              res[c].status < 400 /\ res[c].json /\ Has(res[c].data, "challenge")

C11_ChallengeOrder ==
    /\ [](\A c \in Calls : C11_Shape(c))
    /\ [][\A c \in Calls :
            /\ (pc'[c] = "awaitSign" /\ pc[c] # "awaitSign") =>
                  pc[c] = "awaitChallenge" /\ op[c] = "authenticateWithWallet"
            /\ (IsAuthenticate(c) /\ Len(log'[c]) > Len(log[c])) =>
                  /\ Len(log[c]) = 1 /\ Len(log'[c]) = 2
                  /\ pc[c] = (IF op[c] = "authenticateWithWallet"
                              THEN "awaitSign" ELSE "awaitChallenge")
                  /\ pc'[c] = "awaitExchange"
                  /\ res'[c].status < 400 /\ res'[c].json
                  /\ log'[c][2].body.challengeToken = res'[c].data.challengeToken
                  /\ log'[c][2].body.signature.b58.over = Utf8(res'[c].data.challenge)
                  /\ log'[c][2].body.signature.b58.by =
                        (IF op[c] = "authenticateWithWallet"
                         THEN arg[c].wallet.address.b58
                         ELSE normalizeSecretKey(arg[c].secretKey).secretKey.pk)]_vars

C11_Witness ==
    \E c, d \in Calls :
        /\ op[c] = "authenticateWithWallet" /\ pc[c] = "awaitExchange"
        /\ log[c][2].body.challengeToken = "ct1"
        /\ log[c][2].body.signature.b58.over = Utf8("c1")
        /\ op[d] = "authenticateWithSecretKey" /\ pc[d] = "awaitExchange"
        /\ log[d][2].body.challengeToken = "ct2"
        /\ log[d][2].body.signature.b58.over = Utf8("c2")

\* C12: a wallet authentication and a secret-key authentication whose signers
\* have the same address (and so yield the same signature) and whose transport
\* promises settled with the same responses have handed the transport the
\* same requests, and end with the same token or the same error.
C12_SamePair(c, d) ==
    /\ op[c] = "authenticateWithWallet" /\ op[d] = "authenticateWithSecretKey"
    /\ normalizeSecretKey(arg[d].secretKey).ok
    /\ arg[c].wallet.address = normalizeSecretKey(arg[d].secretKey).wallet
    /\ got[c] = got[d]
    /\ pc[c] = pc[d] /\ pc[c] \in {"awaitExchange", "storing", "done"}
    /\ result[c] # Threw(Thrown("user rejected"))

C12_SameWire ==
    \A c, d \in Calls :
        C12_SamePair(c, d) => log[c] = log[d] /\ result[c] = result[d]

C12_Witness ==
    \E c, d \in Calls :
        /\ C12_SamePair(c, d) /\ pc[c] = "done"
        /\ Len(got[c]) = 2 /\ Len(log[d]) = 2
        /\ result[d] = Threw(Err("ServerMessage", 0, "bad signature"))

\* the path of a history request whose query holds the parameter `first`
\* (none when "") and, if withPage, the page of o
C13_Path(first, withPage, o) ==
    LET page == "page=" \o NumToString(o.page)
    IN IF first = ""
       THEN IF withPage THEN "/api/history?" \o page ELSE "/api/history"
       ELSE "/api/history?" \o first \o (IF withPage THEN "&" \o page ELSE "")

C13_First(o, limitCounts) ==
    IF Has(o, "all") /\ o.all THEN "all=true"
    ELSE IF limitCounts THEN "limit=" \o LimitString(o.limit)
    ELSE ""

\* C13 as claimed: the query of a history request holds all=true and no limit
\* when all is true; limit=<n> or limit=all and no all when all is not true
\* and a limit is supplied; neither otherwise; and the page, if any, next to
\* them, whatever they are.
C13_AllOverLimit ==
    \A c \in Calls :
        (op[c] = "getHistory" /\ log[c] # <<>>) =>
            LET o == arg[c]
            IN log[c][1].path \in
                 { C13_Path(C13_First(o, Has(o, "limit")), w, o) :
                     w \in (IF Has(o, "page") THEN BOOLEAN ELSE {FALSE}) }

\* C13 amended: the same, where a limit of 0 counts as not supplied; the page
\* is in the query exactly when it is supplied and not 0.
C13_AllOverNonZeroLimit ==
    \A c \in Calls :
        (op[c] = "getHistory" /\ log[c] # <<>>) =>
            LET o == arg[c]
            IN log[c][1].path =
                 C13_Path(C13_First(o, Has(o, "limit") /\ o.limit # [num |-> 0]),
                          Has(o, "page") /\ o.page # 0, o)

C13_Witness ==
    \E c \in Calls :
        /\ op[c] = "getHistory" /\ log[c] # <<>>
        /\ arg[c] = [all |-> TRUE, limit |-> [num |-> 20]]
        /\ log[c][1].path = "/api/history?all=true"

\* C14: the result of a successful getHistory has exactly the fields history
\* and pagination; history is the body's history when that is a sequence and
\* the empty sequence otherwise; pagination is the body's pagination when
\* present and null otherwise; neither is undefined, and the body {} gives
\* {history: [], pagination: null}.
C14_Null == [null |-> TRUE]

C14_BothFieldsPopulated ==
    \A c \in Calls :
        (op[c] = "getHistory" /\ pc[c] = "done" /\ result[c].kind = "ok") =>
            LET d == res[c].data
                v == result[c].val
            IN /\ res[c].status < 400 /\ res[c].json
               /\ DOMAIN v = {"history", "pagination"}
               /\ v.history = (IF Has(d, "history") /\ Has(d.history, "arr")
                               THEN d.history.arr ELSE <<>>)
               /\ v.pagination = (IF Has(d, "pagination") THEN d.pagination
                                  ELSE C14_Null)
               /\ v.history \in Seq({"e1"})
               /\ v.pagination # [undefined |-> TRUE]
               /\ d = EmptyObj => v = [history |-> <<>>, pagination |-> C14_Null]

C14_Witness ==
    \E c \in Calls :
        /\ op[c] = "getHistory" /\ pc[c] = "done"
        /\ res[c].json /\ res[c].data = EmptyObj
        /\ result[c] = Returned([history |-> <<>>, pagination |-> C14_Null])

\* C15: an authentication whose challenge fetch fails (the transport rejects,
\* status >= 400, or a body that does not decode) asks for no signature and
\* posts no exchange; one whose signing fails posts no exchange; and one that
\* fails at the challenge, the signing or the exchange never writes the token
\* store: no step of it changes the stored token.
C15_Failed(s) == s.thrown \/ s.res.status >= 400 \/ ~s.res.json

C15_ChallengeFailed(c) == Len(got[c]) >= 1 /\ C15_Failed(got[c][1])

C15_ExchangeFailed(c) ==
    /\ Len(got[c]) = 2
    /\ C15_Failed(got[c][2]) \/ ExchangeRefused(got[c][2].res)

C15_StoreKept(c) ==
    IsAuthenticate(c) =>
        /\ C15_ChallengeFailed(c) =>
              /\ pc[c] = "done" /\ result[c].kind = "err"
              /\ log[c] = <<ChallengeRequest>> /\ Len(got[c]) = 1
        /\ result[c] = Threw(Thrown("user rejected")) =>
              log[c] = <<ChallengeRequest>>
        /\ C15_ExchangeFailed(c) => pc[c] = "done" /\ result[c].kind = "err"
        /\ result[c].kind = "err" => writes[c] = 0

C15_FailedAuthKeepsStore ==
    /\ [](\A c \in Calls : C15_StoreKept(c))
    /\ [][\A c \in Calls :
            /\ (pc'[c] = "awaitSign" /\ pc[c] # "awaitSign") =>
                  ~C15_Failed(got'[c][1])
            /\ (op'[c] \in {"authenticateWithWallet", "authenticateWithSecretKey"}
                /\ pc'[c] # pc[c] /\ pc'[c] # "storing") =>
                  tokenStore' = tokenStore]_vars

C15_Witness ==
    \E c \in Calls :
        /\ IsAuthenticate(c) /\ pc[c] = "done" /\ C15_ExchangeFailed(c)
        /\ got[c][2].res.status = 400 /\ Has(got[c][2].res.data, "token")
        /\ result[c].kind = "err" /\ writes[c] = 0
        /\ tokenStore = "t2" /\ lastWriter # c

\* C16: when the response of an authorized call has status 401 the call
\* empties the token store whatever the store holds then, also a token other
\* than the one the request carried: a token an authentication stored while
\* the call was in flight is lost, and an authorized call that starts next
\* reads no token and fails as unauthenticated.
C16_ClearsAnyToken ==
    /\ [][\A c \in Calls :
            (IsAuthorized(c) /\ pc[c] = "awaitRes" /\ pc'[c] # "awaitRes"
             /\ res'[c].status = 401) =>
                /\ tokenStore' = NoToken
                /\ lastWriter' = c
                /\ pc'[c] = "clearing"]_vars
    /\ [][\A d \in Calls :
            (tokenStore = NoToken /\ pc[d] = "idle" /\ pc'[d] = "haveToken") =>
                tok'[d] = NoToken]_vars
    /\ [](\A d \in Calls :
            (IsAuthorized(d) /\ tok[d] = NoToken /\ pc[d] = "done") =>
                result[d] = Threw(Unauthenticated))

C16_Witness ==
    \E c, d \in Calls :
        /\ IsAuthorized(c) /\ tok[c] = "t1" /\ res[c].status = 401
        /\ IsAuthenticate(d) /\ pc[d] = "done" /\ writes[d] = 1
        /\ result[d] = Returned([token |-> "t2"])
        /\ lastWriter = c /\ tokenStore = NoToken

\* C17: the token store is written only by setToken, by clearToken, by an
\* authentication whose exchange returned a token, and by an authorized call
\* whose response has status 401; the stored token changes only by such a
\* write.  getHistory and requestSignal that end in any other way (a result,
\* payment required, another status >= 400, a body that does not decode, no
\* token, no payment client, a rejected transport promise) have written
\* nothing, and getToken and setPaymentClient write nothing.
C17_Writer(c) ==
    \/ pc[c] = "idle" /\ op'[c] \in {"setToken", "clearToken"}
    \/ IsAuthenticate(c) /\ pc[c] = "awaitExchange" /\ pc'[c] = "storing"
       /\ ~got'[c][2].thrown /\ got'[c][2].res.status < 400
       /\ Has(got'[c][2].res.data, "token")
    \/ IsAuthorized(c) /\ pc[c] = "awaitRes" /\ res'[c].status = 401

C17_Quiet(c) ==
    /\ (IsAuthorized(c) /\ pc[c] = "done" /\ result[c] # Threw(Unauthorized)) =>
          writes[c] = 0
    /\ (IsAuthorized(c) /\ res[c].status # 401) => writes[c] = 0
    /\ op[c] = "getToken" => writes[c] = 0

C17_StoreFrame ==
    /\ [](\A c \in Calls : C17_Quiet(c))
    /\ [][/\ \A c \in Calls : writes'[c] > writes[c] => C17_Writer(c)
          /\ tokenStore' # tokenStore => \E c \in Calls : writes'[c] > writes[c]
          /\ paymentClient' # paymentClient =>
                tokenStore' = tokenStore /\ writes' = writes]_vars

C17_Witness ==
    \E c, d \in Calls :
        /\ op[c] = "requestSignal" /\ pc[c] = "done" /\ res[c].status = 500
        /\ tok[c] = "t1"
        /\ op[d] = "getHistory" /\ pc[d] = "done"
        /\ result[d] = Threw(Err("ParseFailed", 0, "<html>"))
        /\ tokenStore = "t1" /\ writes[c] = 0 /\ writes[d] = 0

\* C18: the payment adapter starts a remediation only for a caught error whose
\* message names a missing associated token account (the phrase followed by at
\* least 32 base58 characters).  When the first underlying call returns, the
\* adapter returns that response; when it throws any other error, the adapter
\* throws that error; in both cases there is no remediation step and no
\* second call.
C18_NamesAccount(m) == m.phrase /\ m.run >= MintMinLength

C18_Untouched(p) ==
    /\ p.rems = <<>> /\ p.steps = <<>> /\ p.caught = NoPayErr
    /\ p.calls = <<p.args>>

C18_OnlyAccountMissing ==
    /\ [](/\ pay.rems # <<>> =>
                pay.caught.kind = "x402" /\ C18_NamesAccount(pay.caught.message)
          /\ (pay.pc = "done" /\ ~pay.thrown) =>
                pay.res \in SignalResponses /\ pay.err = NoPayErr
          /\ (pay.pc = "done" /\ pay.thrown /\ pay.err.kind = "x402"
              /\ Len(pay.calls) = 1) =>
                ~C18_NamesAccount(pay.err.message) /\ C18_Untouched(pay))
    /\ [][(pay.pc = "first" /\ pay'.pc # "first") =>
            IF pay'.rems = <<>>
            THEN /\ pay'.pc = "done" /\ C18_Untouched(pay')
                 /\ pay'.thrown =>
                      /\ pay'.err.kind = "x402"
                      /\ ~C18_NamesAccount(pay'.err.message)
            ELSE /\ C18_NamesAccount(pay'.caught.message)
                 /\ pay'.calls = pay.calls]_vars

C18_Witness ==
    /\ pay.pc = "done" /\ pay.thrown
    /\ pay.err = PayErr("x402", Message(TRUE, "M1", 31, FALSE))
    /\ C18_Untouched(pay)

\* C19: a remediation calls, in this order, the mint lookup, the address
\* computation, the account lookup, the blockhash request, the submission of
\* the creation transaction and the wait for its confirmation.  A missing mint
\* ends it after the mint lookup with an error, nothing submitted, no retry.
\* An account that exists ends it after the account lookup, nothing submitted,
\* and the original call is retried.  Otherwise one transaction is submitted
\* and the retry is made only when the confirmation has returned; a step that
\* throws ends the call with no retry.
C19_Order ==
    <<"getMintInfo", "getAssociatedTokenAddress", "getAtaInfo",
      "getLatestBlockhash", "sendRawTransaction", "confirmTransaction">>

C19_Confirmed == { C19_Order \o <<x>> : x \in {"confirmed", "failed"} }

C19_Prefix(s) == Len(s) <= Len(C19_Order) /\ s = SubSeq(C19_Order, 1, Len(s))

C19_Steps ==
    /\ \/ pay.steps = <<"newPublicKey">>
       \/ C19_Prefix(pay.steps)
       \/ pay.steps \in C19_Confirmed
    /\ Len(pay.calls) = 2 =>
          pay.steps = SubSeq(C19_Order, 1, 3) \/ pay.steps \in C19_Confirmed
    /\ (pay.pc = "done" /\ pay.thrown /\ pay.err.kind = "MintMissing") =>
          pay.steps = <<"getMintInfo">> /\ Len(pay.calls) = 1
    /\ (pay.pc = "done" /\ pay.thrown /\ pay.err.kind \in {"Rpc", "InvalidPublicKey"}) =>
          Len(pay.calls) = 1 /\ pay.steps \notin C19_Confirmed

C19_RemediationOrder ==
    /\ []C19_Steps
    /\ [][/\ (pay.pc = "mintInfo" /\ pay'.pc = "done") =>
                pay'.thrown /\ pay'.steps = pay.steps /\ pay'.calls = pay.calls
          /\ (pay.pc = "ataInfo" /\ pay'.pc = "retry") =>
                pay'.steps = pay.steps /\ Len(pay'.calls) = 2
          /\ pay.pc = "send" =>
                /\ pay'.pc \in {"send", "confirm", "done"}
                /\ pay'.calls = pay.calls
                /\ pay'.pc = "done" => pay'.thrown
          /\ (pay.pc = "confirm" /\ pay'.pc # "confirm") =>
                \/ pay'.pc = "retry" /\ pay'.steps \in C19_Confirmed
                   /\ Len(pay'.calls) = 2
                \/ pay'.pc = "done" /\ pay'.thrown /\ pay'.calls = pay.calls
          /\ (pay.pc # "idle" /\ Len(pay'.calls) > Len(pay.calls)) =>
                pay.pc \in {"ataInfo", "confirm"}]_vars

C19_Witness ==
    /\ pay.pc = "done" /\ ~pay.thrown /\ Len(pay.calls) = 2
    /\ pay.steps = C19_Order \o <<"confirmed">>
    /\ pay.programId = "TOKEN_2022_PROGRAM_ID"

====
